---- MODULE Spec2Model ----
(***************************************************************************)
(* State-machine model of the stock tick pipeline (StockDataProcessor in   *)
(* data_processor.py) and of the request layer in front of it (api.py).    *)
(*                                                                         *)
(* A nullable number (a pandas float cell that may be NaN, a timestamp     *)
(* that may be NaT) is the empty sequence << >> when missing and <<v>>     *)
(* when present.  Every timestamp is a whole number of seconds since the   *)
(* Unix epoch: the loader builds each one from a calendar day and an       *)
(* integer hours/minutes/seconds Timedelta, so it has no sub-second part.  *)
(* A mean or a quotient is kept as the exact fraction [num, den].          *)
(* The field "line" of a record is the number of the CSV line it came      *)
(* from; the program does not keep it, the properties use it to say which  *)
(* record is which.  The correlation matrix, which no operation reads, is  *)
(* left out.                                                               *)
(***************************************************************************)
EXTENDS Integers, Sequences, FiniteSets, TLC

VARIABLES
    file,       \* the CSV file at csv_path: exists, columns, rows
    pc,         \* position of the start-up code / the server
    data,       \* StockDataProcessor.data
    summary,    \* StockDataProcessor.summary
    request,    \* the request being answered: [op, arg], or NoRequest
    passed,     \* the timeframe handed to processor.get_timeseries_data by
                \* the request being answered (<< >> when it was not called)
    response,   \* [status, body] returned for that request
    memo        \* the first request served, its response, and whether
                \* the same request has been served again since

vars == <<file, pc, data, summary, request, passed, response, memo>>

----------------------------------------------------------------------------
(* Program constants *)

SecondsPerMinute == 60
MinutesPerHour == 60
HoursPerDay == 24
HourFactor == 10000
MinuteFactor == 100
FallbackDay == 19358
VolatilityWindow == 20
ShortWindow == 5
MidWindow == 10
RsiCom == 13
TradingDays == 252
HttpOk == 200
HttpBadRequest == 400

SecondsPerHour == MinutesPerHour * SecondsPerMinute
SecondsPerDay == HoursPerDay * SecondsPerHour

FallbackDate == "2023-01-01"

(* Bounds of the model *)

MaxLen == 3
MaxTail == 3

----------------------------------------------------------------------------
(* Nullable numbers *)

None == << >>
Some(v) == <<v>>
IsNull(x) == x = << >>
Val(x) == x[1]

Max(a, b) == IF a >= b THEN a ELSE b
Min(a, b) == IF a <= b THEN a ELSE b

RECURSIVE SumSeq(_)
SumSeq(s) == IF s = << >> THEN 0 ELSE Head(s) + SumSeq(Tail(s))

----------------------------------------------------------------------------
(* _load_data: the Time Reconstructor and the Series Normalizer *)

\* int(float(hhmmss)): a cell that is not a number (text, NaN) raises and
\* gives NaT; a number is truncated towards zero.  A numeric cell holds its
\* value in tenths, so that 914019 stands for 91401.9.
ToInt(cell) ==
    IF ~cell.num THEN None
    ELSE IF cell.val >= 0 THEN Some(cell.val \div 10)
    ELSE Some(0 - ((0 - cell.val) \div 10))

Hours(v) == v \div HourFactor
Minutes(v) == (v % HourFactor) \div MinuteFactor
\* (variant) the seconds taken modulo 60 instead of modulo 100
SecondsOfMinute(v) == v % SecondsPerMinute

Seconds(v) == v % MinuteFactor

\* pd.Timedelta(hours, minutes, seconds), in seconds
Timedelta(h, m, s) == h * SecondsPerHour + m * SecondsPerMinute + s

hhmmss_to_timedelta(cell) ==
    LET i == ToInt(cell)
    IN  IF IsNull(i) THEN None
        ELSE Some(Timedelta(Hours(Val(i)), Minutes(Val(i)), Seconds(Val(i))))

\* .astype(str).str.strip() of a start_date cell: blanks strip to the empty
\* string, a missing cell reads "nan"
Strip(s) == IF s = " " THEN "" ELSE s

\* df.loc[(== '0') | isna() | (== ''), 'start_date'] = '2023-01-01'
\* (after astype(str) no cell is NaN any more, so isna() selects nothing)
DefaultDate(s) == IF s = "0" \/ s = "" THEN FallbackDate ELSE s

\* pd.to_datetime(.., errors='coerce'): the day number, or NaT
ToDatetime(s) ==
    CASE s = "2023-01-01" -> Some(FallbackDay)
      [] s = "2023-01-02" -> Some(FallbackDay + 1)
      [] OTHER -> None

\* the start_date column as the loader leaves it before combining
StartDate(f, raw) ==
    IF "start_date" \notin f.cols THEN FallbackDate
    ELSE DefaultDate(Strip(raw.start_date))

\* df['timestamp'] = to_datetime(start_date) + start_time_timedelta
Timestamp(f, raw) ==
    LET d == ToDatetime(StartDate(f, raw))
        t == hhmmss_to_timedelta(raw.start_time)
    IN  IF IsNull(d) \/ IsNull(t) THEN None
        ELSE Some(Val(d) * SecondsPerDay + Val(t))

\* pd.to_numeric(.., errors='coerce')
ToNumeric(cell) == IF cell.num THEN Some(cell.val) ELSE None

\* rename + select + to_numeric of one row whose timestamp is valid
Normalize(f, i) ==
    LET raw == f.rows[i]
    IN  [line |-> i,
         timestamp |-> Val(Timestamp(f, raw)),
         last_price |-> ToNumeric(raw.ltp),
         buy_price |-> ToNumeric(raw.l1_bid_vwap),
         sell_price |-> ToNumeric(raw.l1_ask_vwap),
         buy_quantity |-> ToNumeric(raw.l1_bid_vol),
         sell_quantity |-> ToNumeric(raw.l1_ask_vol),
         total_traded_volume |-> ToNumeric(raw.volume)]

\* rows kept by the two dropna(subset=..) calls, in file order: set_index
\* does not sort
RECURSIVE LoadFrom(_, _)
LoadFrom(f, i) ==
    IF i > Len(f.rows) THEN << >>
    ELSE IF IsNull(Timestamp(f, f.rows[i])) THEN LoadFrom(f, i + 1)
    ELSE <<Normalize(f, i)>> \o LoadFrom(f, i + 1)

LoadRows(f) == LoadFrom(f, 1)

----------------------------------------------------------------------------
(* _clean_data: the Cleaner *)

NumericCols ==
    {"last_price", "buy_price", "sell_price",
     "buy_quantity", "sell_quantity", "total_traded_volume"}

\* self.data[col].replace(0, np.nan) for buy_price and sell_price
ZeroToNaN(x) == IF x = Some(0) THEN None ELSE x

ReplaceZeros(d) ==
    [i \in 1..Len(d) |->
        [d[i] EXCEPT !.buy_price = ZeroToNaN(@), !.sell_price = ZeroToNaN(@)]]

\* one row of ffill: a missing cell takes the value the row above has after
\* its own fill (the most recent value present above it in the frame)
FillRow(prev, r) ==
    [c \in DOMAIN r |->
        IF c \in NumericCols /\ IsNull(r[c]) /\ prev # << >> THEN prev[1][c]
        ELSE r[c]]

RECURSIVE FfillFrom(_, _)
FfillFrom(d, prev) ==
    IF d = << >> THEN << >>
    ELSE LET r == FillRow(prev, Head(d))
         IN  <<r>> \o FfillFrom(Tail(d), <<r>>)

\* self.data.ffill()
Ffill(d) == FfillFrom(d, << >>)

HasNaN(r, cols) == \E c \in cols : IsNull(r[c])

\* self.data.dropna() over the columns the frame has at that point
Dropna(d, cols) == SelectSeq(d, LAMBDA r : ~HasNaN(r, cols))

\* (variant) a fill taken from the row above as it was read,
\* fillna(self.data.shift()), and a drop of the leading incomplete rows only
ShiftFill(d) ==
    [i \in 1..Len(d) |->
        [c \in DOMAIN d[i] |->
            IF c \in NumericCols /\ IsNull(d[i][c]) /\ i > 1 THEN d[i - 1][c]
            ELSE d[i][c]]]

RECURSIVE DropLeading(_)
DropLeading(d) ==
    IF d = << >> THEN << >>
    ELSE IF HasNaN(Head(d), NumericCols) THEN DropLeading(Tail(d))
    ELSE d

CleanDataShift(d) == DropLeading(ShiftFill(ReplaceZeros(d)))

CleanData(d) == Dropna(Ffill(ReplaceZeros(d)), NumericCols)

----------------------------------------------------------------------------
(* _calculate_technical_indicators: the Indicator Engine *)

Price(d, i) == Val(d[i].last_price)
Volume(d, i) == Val(d[i].total_traded_volume)

RECURSIVE SumPrice(_, _, _)
SumPrice(d, lo, hi) == IF lo > hi THEN 0 ELSE Price(d, lo) + SumPrice(d, lo + 1, hi)

RECURSIVE SumSquares(_, _, _)
SumSquares(d, lo, hi) ==
    IF lo > hi THEN 0 ELSE Price(d, lo) * Price(d, lo) + SumSquares(d, lo + 1, hi)

\* (variant) rolling(window=w, min_periods=1): a value from the first record
RollingStartAtOnce(w) == 1

\* the first record at which rolling(window=w) has a value: min_periods is w
RollingStart(w) == w

\* rolling(window=w).mean() at record i: sum of the w trailing prices over w
RollingMean(d, i, w) ==
    IF i < RollingStart(w) THEN None
    ELSE Some([num |-> SumPrice(d, Max(1, i - w + 1), i), den |-> w])

\* rolling(window=w).std() at record i (sample standard deviation): the
\* fraction is the variance, the value is its square root
RollingStd(d, i, w) ==
    IF i < RollingStart(w) THEN None
    ELSE LET s == SumPrice(d, Max(1, i - w + 1), i)
             q == SumSquares(d, Max(1, i - w + 1), i)
         IN  Some([num |-> w * q - s * s, den |-> w * (w - 1)])

RECURSIVE CumVolume(_, _)
CumVolume(d, i) == IF i = 0 THEN 0 ELSE Volume(d, i) + CumVolume(d, i - 1)

RECURSIVE CumPriceVolume(_, _)
CumPriceVolume(d, i) ==
    IF i = 0 THEN 0 ELSE Price(d, i) * Volume(d, i) + CumPriceVolume(d, i - 1)

\* cumulative_price_volume / (cumulative_volume + epsilon): eps marks the
\* 1e-10 added to the denominator
Vwap(d, i) ==
    Some([num |-> CumPriceVolume(d, i), den |-> CumVolume(d, i), eps |-> TRUE])

\* price.diff(1): NaN on the first record
Delta(d, i) == IF i = 1 THEN None ELSE Some(Price(d, i) - Price(d, i - 1))

\* delta.where(delta > 0, 0): NaN > 0 is false, so the first record gives 0
Gain(d, i) ==
    LET x == Delta(d, i) IN IF ~IsNull(x) /\ Val(x) > 0 THEN Val(x) ELSE 0

\* -delta.where(delta < 0, 0)
Loss(d, i) ==
    LET x == Delta(d, i) IN IF ~IsNull(x) /\ Val(x) < 0 THEN 0 - Val(x) ELSE 0

\* ewm(com=13, adjust=False).mean() at record i: y_1 = x_1 and
\* y_t = (com * y_(t-1) + x_t) / (com + 1).  The recurrence is kept
\* unevaluated as its inputs x_1 .. x_i, which determine it.
EwmGain(d, i) == [com |-> RsiCom, of |-> [t \in 1..i |-> Gain(d, t)]]
EwmLoss(d, i) == [com |-> RsiCom, of |-> [t \in 1..i |-> Loss(d, t)]]

\* 100 - 100 / (1 + avg_gain / (avg_loss + epsilon)): never NaN
Rsi(d, i) == Some([avg_gain |-> EwmGain(d, i), avg_loss |-> EwmLoss(d, i)])

IndicatorCols ==
    {"volatility_20_period", "ma_5_period", "ma_10_period", "ma_20_period",
     "cumulative_volume", "vwap", "bid_ask_spread", "rsi_14_period"}

BaseCols == {"line", "timestamp"} \cup NumericCols

Enrich(d, i) ==
    [c \in BaseCols \cup IndicatorCols |->
        CASE c = "volatility_20_period" -> RollingStd(d, i, VolatilityWindow)
          [] c = "ma_5_period" -> RollingMean(d, i, ShortWindow)
          [] c = "ma_10_period" -> RollingMean(d, i, MidWindow)
          [] c = "ma_20_period" -> RollingMean(d, i, VolatilityWindow)
          [] c = "cumulative_volume" -> Some(CumVolume(d, i))
          [] c = "vwap" -> Vwap(d, i)
          [] c = "bid_ask_spread" ->
                Some(Val(d[i].sell_price) - Val(d[i].buy_price))
          [] c = "rsi_14_period" -> Rsi(d, i)
          [] OTHER -> d[i][c]]

\* the frame before the final dropna
WithIndicators(d) == [i \in 1..Len(d) |-> Enrich(d, i)]

CalculateIndicators(d) == Dropna(WithIndicators(d), NumericCols \cup IndicatorCols)

----------------------------------------------------------------------------
(* resample(freq): the Aggregator's buckets *)

Front(s) == SubSeq(s, 1, Len(s) - 1)
Last(s) == s[Len(s)]

\* a time grouper sorts a frame that is not in time order, stably
RECURSIVE InsertByTime(_, _)
InsertByTime(s, r) ==
    IF s = << >> \/ Last(s).timestamp <= r.timestamp THEN Append(s, r)
    ELSE Append(InsertByTime(Front(s), r), Last(s))

RECURSIVE SortByTime(_)
SortByTime(d) ==
    IF d = << >> THEN << >> ELSE InsertByTime(SortByTime(Front(d)), Last(d))

BucketOf(ts, width) == (ts \div width) * width

RECURSIVE MinTime(_)
MinTime(d) ==
    IF Len(d) = 1 THEN d[1].timestamp ELSE Min(d[1].timestamp, MinTime(Tail(d)))

RECURSIVE MaxTime(_)
MaxTime(d) ==
    IF Len(d) = 1 THEN d[1].timestamp ELSE Max(d[1].timestamp, MaxTime(Tail(d)))

\* the bucket starts of resample(width): every bucket from the one of the
\* earliest record to the one of the latest, with or without records
Buckets(d, width) ==
    IF d = << >> THEN << >>
    ELSE LET lo == BucketOf(MinTime(d), width)
             hi == BucketOf(MaxTime(d), width)
         IN  [k \in 1..((hi - lo) \div width + 1) |-> lo + (k - 1) * width]

\* the records of one bucket, in time order
InBucket(d, b, width) ==
    SortByTime(SelectSeq(d, LAMBDA r : BucketOf(r.timestamp, width) = b))

RECURSIVE MaxSeq(_)
MaxSeq(s) == IF Len(s) = 1 THEN s[1] ELSE Max(s[1], MaxSeq(Tail(s)))

RECURSIVE MinSeq(_)
MinSeq(s) == IF Len(s) = 1 THEN s[1] ELSE Min(s[1], MinSeq(Tail(s)))

\* the column c of the records rs, as plain values
Column(rs, c) == [i \in 1..Len(rs) |-> Val(rs[i][c])]

\* .mean() of whole numbers: NaN over nothing
Mean(xs) ==
    IF xs = << >> THEN None ELSE Some([num |-> SumSeq(xs), den |-> Len(xs)])

\* .mean() of values that are fractions themselves, kept as its operands
MeanOf(xs) == IF xs = << >> THEN None ELSE Some([mean_of |-> xs])

----------------------------------------------------------------------------
(* _perform_statistical_analysis *)

\* resample('D').last().pct_change(): the day's last price, an empty day
\* padded from the day before, then the change relative to the day before
RECURSIVE DailyLast(_, _, _)
DailyLast(d, days, prev) ==
    IF days = << >> THEN << >>
    ELSE LET rs == InBucket(d, Head(days), SecondsPerDay)
             x == IF rs = << >> THEN prev ELSE Last(rs).last_price
         IN  <<x>> \o DailyLast(d, Tail(days), x)

DailyReturns(d) ==
    LET p == DailyLast(d, Buckets(d, SecondsPerDay), None)
    IN  [i \in 1..(Len(p) - 1) |->
            [num |-> Val(p[i + 1]) - Val(p[i]), den |-> Val(p[i])]]

\* daily_returns.std() * np.sqrt(252): NaN with fewer than two returns
DailyVolatility(d) ==
    LET r == DailyReturns(d)
    IN  IF Len(r) < 2 THEN None
        ELSE Some([std_of |-> r, times_sqrt |-> TradingDays])

\* resample('1Min').sum().mean(): a minute without records sums to 0
VolumePerMinute(d) ==
    LET bs == Buckets(d, SecondsPerMinute)
    IN  [k \in 1..Len(bs) |->
            SumSeq(Column(InBucket(d, bs[k], SecondsPerMinute),
                          "total_traded_volume"))]

OrderFlowImbalance(r) == Some(Val(r.buy_quantity) - Val(r.sell_quantity))

\* the frame after the analysis: order_flow_imbalance added and
\* volatility_20_period renamed to volatility
Analysed(d) ==
    [i \in 1..Len(d) |->
        [c \in ((DOMAIN d[i]) \ {"volatility_20_period"})
               \cup {"volatility", "order_flow_imbalance"} |->
            CASE c = "volatility" -> d[i].volatility_20_period
              [] c = "order_flow_imbalance" -> OrderFlowImbalance(d[i])
              [] OTHER -> d[i][c]]]

Statistics(d) ==
    [daily_volatility |-> DailyVolatility(d),
     avg_volume_per_min |-> Mean(VolumePerMinute(d)),
     avg_order_flow_imbalance |->
        Mean([i \in 1..Len(d) |-> Val(OrderFlowImbalance(d[i]))])]

----------------------------------------------------------------------------
(* the query operations of StockDataProcessor *)

get_summary(d, sm) ==
    [total_ticks |-> Len(d),
     avg_price |-> Mean(Column(d, "last_price")),
     avg_bid_ask_spread |-> Mean(Column(d, "bid_ask_spread")),
     daily_volatility_annualized |-> sm.daily_volatility,
     avg_volume_per_min |-> sm.avg_volume_per_min,
     avg_order_flow_imbalance |-> sm.avg_order_flow_imbalance]

\* the width in seconds of a pandas frequency string
Width(tf) ==
    CASE tf = "1Min" -> SecondsPerMinute
      [] tf = "5Min" -> 5 * SecondsPerMinute
      [] tf = "15Min" -> 15 * SecondsPerMinute
      [] tf = "1H" -> SecondsPerHour

\* (variant) the bucket's volume taken from its last record, not summed
OhlcRowLastVolume(d, b, width) ==
    LET rs == InBucket(d, b, width)
        px == Column(rs, "last_price")
    IN  [timestamp |-> b,
         open |-> IF rs = << >> THEN None ELSE Some(px[1]),
         high |-> IF rs = << >> THEN None ELSE Some(MaxSeq(px)),
         low |-> IF rs = << >> THEN None ELSE Some(MinSeq(px)),
         close |-> IF rs = << >> THEN None ELSE Some(Last(px)),
         volume |-> IF rs = << >> THEN Some(0)
                    ELSE Last(rs).total_traded_volume]

\* resample(tf).ohlc() with the volume sum beside it: one row per bucket
OhlcRow(d, b, width) ==
    LET rs == InBucket(d, b, width)
        px == Column(rs, "last_price")
    IN  [timestamp |-> b,
         open |-> IF rs = << >> THEN None ELSE Some(px[1]),
         high |-> IF rs = << >> THEN None ELSE Some(MaxSeq(px)),
         low |-> IF rs = << >> THEN None ELSE Some(MinSeq(px)),
         close |-> IF rs = << >> THEN None ELSE Some(Last(px)),
         volume |-> Some(SumSeq(Column(rs, "total_traded_volume")))]

OhlcCols == {"open", "high", "low", "close", "volume"}

\* ohlcv.dropna() of get_timeseries_data
DropEmptyCandles(rows) == Dropna(rows, OhlcCols)

get_timeseries_data(d, tf) ==
    LET bs == Buckets(d, Width(tf))
    IN  DropEmptyCandles([k \in 1..Len(bs) |-> OhlcRow(d, bs[k], Width(tf))])

\* self.data[cols].resample('1Min').mean(): one row per bucket, kept as
\* it is
get_orderbook_analysis(d) ==
    LET bs == Buckets(d, SecondsPerMinute)
    IN  [k \in 1..Len(bs) |->
            LET rs == InBucket(d, bs[k], SecondsPerMinute)
            IN  [timestamp |-> bs[k],
                 bid_ask_spread |-> Mean(Column(rs, "bid_ask_spread")),
                 order_flow_imbalance |->
                    Mean(Column(rs, "order_flow_imbalance"))]]

get_technical_indicators(d) ==
    LET bs == Buckets(d, SecondsPerMinute)
    IN  [k \in 1..Len(bs) |->
            LET rs == InBucket(d, bs[k], SecondsPerMinute)
            IN  [timestamp |-> bs[k],
                 rsi_14_period |-> MeanOf(Column(rs, "rsi_14_period")),
                 ma_5_period |-> MeanOf(Column(rs, "ma_5_period")),
                 ma_10_period |-> MeanOf(Column(rs, "ma_10_period")),
                 ma_20_period |-> MeanOf(Column(rs, "ma_20_period")),
                 vwap |-> MeanOf(Column(rs, "vwap"))]]

----------------------------------------------------------------------------
(* the CSV files the model starts from *)

\* a cell holding a number (start_time: in tenths) and a cell holding text
\* or nothing
N(v) == [num |-> TRUE, val |-> v]
Txt == [num |-> FALSE, val |-> 0]

Row(date, time, ltp, bid, ask, bvol, avol, vol) ==
    [start_date |-> date, start_time |-> time, ltp |-> ltp,
     l1_bid_vwap |-> bid, l1_ask_vwap |-> ask,
     l1_bid_vol |-> bvol, l1_ask_vol |-> avol, volume |-> vol]

\* rows of every kind: dates that default, parse or fail, times in and out
\* of order or unreadable, prices missing or zero
SmallRows ==
    {Row("0", N(915000), N(100), N(99), N(101), N(7), N(4), N(10)),
     Row(" ", N(914005), Txt, N(0), N(102), N(5), N(5), N(5)),
     Row("garbage", N(915000), N(102), N(101), N(0), Txt, N(3), N(0)),
     Row("nan", Txt, N(101), N(100), N(102), N(2), N(2), N(1)),
     Row("2023-01-02", N(915000), N(103), Txt, N(104), N(3), N(8), Txt)}

\* the ticks that follow the warm-up records
TailRows ==
    {Row("0", N(915000), N(100), N(99), N(101), N(7), N(4), N(10)),
     Row(" ", N(915300), N(102), N(101), N(103), N(2), N(6), N(5)),
     Row("0", N(917100), N(101), N(0), N(102), N(5), N(5), N(0)),
     Row("0", N(931000), Txt, N(98), N(100), N(4), N(4), N(3))}

\* warm-up record i, one second after the one before; with "gap" the first
\* record has no price and the Cleaner drops it
WarmRow(i, kind) ==
    Row("0", N((91400 + i) * 10),
        IF kind = "gap" /\ i = 1 THEN Txt ELSE N(100 + (i % 3)),
        N(99), N(101 + (i % 2)), N(5 + (i % 4)), N(5), N(i % 3))

WarmUp(kind) == [i \in 1..(VolatilityWindow - 1) |-> WarmRow(i, kind)]

\* start_time cells for one-row files: every hour/minute/second field from
\* the edge values, with and without a fraction, and an unreadable cell
TimeCells ==
    {N((h * 10000 + m * 100 + sec) * 10 + f) :
        h \in {0, 9, 23}, m \in {0, 14, 59, 60, 99},
        sec \in {0, 30, 59, 60, 99}, f \in {0, 9}}
    \cup {Txt}

\* negative start_time values: -8470.9 and -235959
NegativeTimeCells == {N(0 - 84709), N(0 - 2359590)}

OneRowFile(c) ==
    [exists |-> TRUE, cols |-> {"start_time", "start_date"},
     rows |-> <<Row("0", c, N(100), N(99), N(101), N(7), N(4), N(10))>>]

Seqs(S, n) == UNION {[1..k -> S] : k \in 0..n}

Files ==
    {[exists |-> TRUE, cols |-> {"start_time", "start_date"}, rows |-> rs] :
        rs \in Seqs(SmallRows, MaxLen)}
    \cup {[exists |-> TRUE, cols |-> {"start_time"}, rows |-> rs] :
        rs \in Seqs(SmallRows, MaxLen - 1)}
    \cup {[exists |-> TRUE, cols |-> {"start_time", "start_date"},
           rows |-> WarmUp(k) \o t] :
        k \in {"plain", "gap"}, t \in Seqs(TailRows, MaxTail)}
    \cup {[exists |-> TRUE, cols |-> {"start_time", "start_date"},
           rows |-> t] :
        t \in Seqs(TailRows, MaxTail - 1)}
    \cup {OneRowFile(c) : c \in TimeCells}
    \cup {OneRowFile(c) : c \in NegativeTimeCells}
    \cup {[exists |-> TRUE, cols |-> {"start_date"}, rows |-> rs] :
        rs \in Seqs(SmallRows, 1)}
    \cup {[exists |-> FALSE, cols |-> {}, rows |-> << >>]}

----------------------------------------------------------------------------
(* the state machine *)

NoRequest == << >>
NoSummary == << >>

Init ==
    /\ file \in Files
    /\ pc = "start"
    /\ data = << >>
    /\ summary = NoSummary
    /\ request = NoRequest
    /\ passed = None
    /\ response = << >>
    /\ memo = << >>

\* (variant) _load_data without the df.empty check
LoadDataUnchecked ==
    /\ pc = "start"
    /\ \/ /\ ~file.exists
          /\ pc' = "exited"
          /\ data' = data
       \/ /\ file.exists
          /\ "start_time" \notin file.cols
          /\ pc' = "crashed"
          /\ data' = data
       \/ /\ file.exists
          /\ "start_time" \in file.cols
          /\ pc' = "loaded"
          /\ data' = LoadRows(file)
    /\ UNCHANGED <<file, summary, request, passed, response, memo>>

\* api.py, processor = StockDataProcessor(csv_path), up to the return of
\* _load_data.  A missing file is caught and the process exits; the KeyError
\* and the ValueError are not caught and end the process as well.
LoadData ==
    /\ pc = "start"
    /\ \/ /\ ~file.exists
          /\ pc' = "exited"
          /\ data' = data
       \/ /\ file.exists
          /\ "start_time" \notin file.cols
          /\ pc' = "crashed"
          /\ data' = data
       \/ /\ file.exists
          /\ "start_time" \in file.cols
          /\ LoadRows(file) = << >>
          /\ pc' = "crashed"
          /\ data' = data
       \/ /\ file.exists
          /\ "start_time" \in file.cols
          /\ LoadRows(file) # << >>
          /\ pc' = "loaded"
          /\ data' = LoadRows(file)
    /\ UNCHANGED <<file, summary, request, passed, response, memo>>

Clean ==
    /\ pc = "loaded"
    /\ data' = CleanData(data)
    /\ pc' = "cleaned"
    /\ UNCHANGED <<file, summary, request, passed, response, memo>>

Indicators ==
    /\ pc = "cleaned"
    /\ data' = CalculateIndicators(data)
    /\ pc' = "enriched"
    /\ UNCHANGED <<file, summary, request, passed, response, memo>>

\* the last step of __init__; on its return the processor is bound and the
\* routes below are registered and served
Analyse ==
    /\ pc = "enriched"
    /\ summary' = Statistics(data)
    /\ data' = Analysed(data)
    /\ pc' = "serving"
    /\ UNCHANGED <<file, request, passed, response, memo>>

Remember(req, resp) ==
    IF memo = << >>
    THEN <<[request |-> req, response |-> resp, again |-> FALSE]>>
    ELSE IF memo[1].request = req THEN <<[memo[1] EXCEPT !.again = TRUE]>>
    ELSE memo

Answer(req, arg, resp) ==
    /\ request' = [op |-> req.op, arg |-> req.arg]
    /\ passed' = arg
    /\ response' = resp
    /\ memo' = Remember(req, resp)

\* GET /api/stock/summary
ApiSummary ==
    /\ pc = "serving"
    /\ Answer([op |-> "summary", arg |-> ""], None,
              [status |-> HttpOk, body |-> get_summary(data, summary)])
    /\ UNCHANGED <<file, pc, data, summary>>

\* (variant) the list of the comment above the route: 1min, 5min, 15min
allowed_timeframes_short == {"1Min", "5Min", "15Min"}

allowed_timeframes == {"1Min", "5Min", "15Min", "1H"}

\* what a client may put in the URL
TimeframeArgs == {"1Min", "5Min", "15Min", "1H", "bad", "1min"}

ErrorBody == <<[error |-> "Invalid timeframe"]>>

\* GET /api/stock/timeseries/<timeframe>
ApiTimeseries ==
    /\ pc = "serving"
    /\ \E tf \in TimeframeArgs :
        \/ /\ tf \notin allowed_timeframes
           /\ Answer([op |-> "timeseries", arg |-> tf], None,
                     [status |-> HttpBadRequest, body |-> ErrorBody])
        \/ /\ tf \in allowed_timeframes
           /\ Answer([op |-> "timeseries", arg |-> tf], Some(tf),
                     [status |-> HttpOk, body |-> get_timeseries_data(data, tf)])
    /\ UNCHANGED <<file, pc, data, summary>>

\* (variant) a handler that sorts the shared frame in place before it
\* resamples, self.data.sort_index(inplace=True)
ApiOrderbookSorting ==
    /\ pc = "serving"
    /\ Answer([op |-> "orderbook", arg |-> ""], None,
              [status |-> HttpOk, body |-> get_orderbook_analysis(data)])
    /\ data' = SortByTime(data)
    /\ UNCHANGED <<file, pc, summary>>

\* GET /api/stock/orderbook
ApiOrderbook ==
    /\ pc = "serving"
    /\ Answer([op |-> "orderbook", arg |-> ""], None,
              [status |-> HttpOk, body |-> get_orderbook_analysis(data)])
    /\ UNCHANGED <<file, pc, data, summary>>

\* GET /api/stock/indicators
ApiIndicators ==
    /\ pc = "serving"
    /\ Answer([op |-> "indicators", arg |-> ""], None,
              [status |-> HttpOk, body |-> get_technical_indicators(data)])
    /\ UNCHANGED <<file, pc, data, summary>>

Next ==
    \/ LoadData
    \/ Clean
    \/ Indicators
    \/ Analyse
    \/ ApiSummary
    \/ ApiTimeseries
    \/ ApiOrderbook
    \/ ApiIndicators

Spec == Init /\ [][Next]_vars

----------------------------------------------------------------------------
(* Properties *)

Served == pc = "serving" /\ request # NoRequest

\* the bucket width of the view a request asks for
ViewWidth(req) ==
    IF req.op = "timeseries" THEN Width(req.arg) ELSE SecondsPerMinute

IsView ==
    /\ Served
    /\ response.status = HttpOk
    /\ request.op \in {"timeseries", "orderbook", "indicators"}

\* the bucket of at least one tick of the series
HasTick(b, width) ==
    \E i \in 1..Len(data) : BucketOf(data[i].timestamp, width) = b

\* C1: no aggregation view (get_timeseries_data for an accepted timeframe,
\* get_orderbook_analysis, get_technical_indicators) returns a record for a
\* bucket in which no tick of the series falls.
C1_NoEmptyBucket ==
    IsView =>
        \A k \in 1..Len(response.body) :
            HasTick(response.body[k].timestamp, ViewWidth(request))

\* C1, the part the code keeps: the candles of get_timeseries_data are
\* exactly the buckets that hold a tick.
C1_CandlesHaveTicks ==
    (IsView /\ request.op = "timeseries") =>
        /\ \A k \in 1..Len(response.body) :
                HasTick(response.body[k].timestamp, ViewWidth(request))
        /\ \A i \in 1..Len(data) :
                \E k \in 1..Len(response.body) :
                    response.body[k].timestamp =
                        BucketOf(data[i].timestamp, ViewWidth(request))

\* 09:15:00 on the fallback date, in epoch seconds
T0915 == FallbackDay * SecondsPerDay + 9 * SecondsPerHour + 15 * SecondsPerMinute

\* tick A (09:15:00, price 100, volume 10) and tick B (09:15:30, price 102,
\* volume 5), both on the fallback date
IsTickA(r) ==
    /\ r.timestamp = T0915
    /\ r.last_price = Some(100)
    /\ r.total_traded_volume = Some(10)

IsTickB(r) ==
    /\ r.timestamp = T0915 + 30
    /\ r.last_price = Some(102)
    /\ r.total_traded_volume = Some(5)

\* the file holds tick A and tick B and nothing else
TwoTickFile ==
    /\ file.exists
    /\ "start_time" \in file.cols
    /\ Len(file.rows) = 2
    /\ LET l == LoadRows(file)
       IN  Len(l) = 2 /\ IsTickA(l[1]) /\ IsTickB(l[2])

\* the final series holds tick A and tick B and nothing else
TwoTickSeries == Len(data) = 2 /\ IsTickA(data[1]) /\ IsTickB(data[2])

OneMinuteAsked == Served /\ request = [op |-> "timeseries", arg |-> "1Min"]

TheCandle ==
    <<[timestamp |-> T0915, open |-> Some(100), high |-> Some(102),
       low |-> Some(100), close |-> Some(102), volume |-> Some(15)]>>

\* C2 as stated: the pipeline initialized on tick A and tick B alone answers
\* get_timeseries_data('1Min') with exactly one bucket, open 100, high 102,
\* low 100, close 102, volume 15.
C2_TwoTickFileOneCandle ==
    (OneMinuteAsked /\ TwoTickFile) => response.body = TheCandle

\* C2 amended: get_timeseries_data('1Min') over a final series that holds
\* tick A and tick B and nothing else gives exactly that one bucket; the
\* pipeline initialized on the two ticks alone drops both as warm-up records
\* and gives no bucket.
C2_TwoTickCandle ==
    OneMinuteAsked =>
        /\ TwoTickSeries => response.body = TheCandle
        /\ TwoTickFile => (data = << >> /\ response.body = << >>)

C2_Witness ==
    /\ OneMinuteAsked
    /\ TwoTickSeries
    /\ response.body = TheCandle
    /\ Len(file.rows) > VolatilityWindow

NoValidTimestamp ==
    \A i \in 1..Len(file.rows) :
        \/ ~file.rows[i].start_time.num
        \/ IsNull(ToDatetime(StartDate(file, file.rows[i])))

Unusable ==
    \/ ~file.exists
    \/ "start_time" \notin file.cols
    \/ NoValidTimestamp

\* C4: when the file cannot be opened, has no start_time column, or leaves
\* no record with a valid timestamp, initialization ends the process: no
\* processor state is published and no request is ever answered; and a
\* request is only answered once initialization has run to its end.
C4_FatalInit ==
    /\ (Unusable /\ pc # "start") =>
            /\ pc \in {"exited", "crashed"}
            /\ data = << >>
            /\ summary = NoSummary
            /\ request = NoRequest
            /\ response = << >>
            /\ ~ENABLED (ApiSummary \/ ApiTimeseries \/ ApiOrderbook \/ ApiIndicators)
    /\ (request # NoRequest \/ response # << >>) =>
            (pc = "serving" /\ summary # NoSummary /\ ~Unusable)

C4_Witness ==
    /\ pc = "crashed"
    /\ "start_time" \in file.cols
    /\ Len(file.rows) >= 2
    /\ \A i \in 1..Len(file.rows) : ~file.rows[i].start_time.num

\* C5: once initialization is complete no request changes the series, its
\* derived columns or the summary, and a request made again later gets the
\* response it got the first time.
C5_QueriesReadOnly ==
    [][pc = "serving" =>
        /\ pc' = "serving"
        /\ data' = data
        /\ summary' = summary
        /\ file' = file
        /\ (memo # << >> /\ request' = memo[1].request) =>
                response' = memo[1].response]_vars

C5_Witness ==
    /\ Served
    /\ memo # << >>
    /\ memo[1].again
    /\ request = memo[1].request
    /\ request.op = "orderbook"
    /\ Len(response.body) > 1

\* the date the claim says is replaced by the fallback date: column absent,
\* cell empty, cell "0", or a cell that does not parse
DateToDefault(f, raw) ==
    \/ "start_date" \notin f.cols
    \/ Strip(raw.start_date) \in {"", "0"}
    \/ IsNull(ToDatetime(Strip(raw.start_date)))

\* C6: every record with a valid time whose date is absent, empty, "0" or
\* unparseable is kept, with the fallback date plus its time of day as
\* timestamp.
C6_DateDefaulted ==
    pc = "loaded" =>
        \A i \in 1..Len(file.rows) :
            (file.rows[i].start_time.num /\ DateToDefault(file, file.rows[i])) =>
                \E j \in 1..Len(data) :
                    /\ data[j].line = i
                    /\ data[j].timestamp =
                        FallbackDay * SecondsPerDay
                            + Val(hhmmss_to_timedelta(file.rows[i].start_time))

\* C6, the part the code keeps: a date column that is absent, or a cell that
\* is empty or "0", gets the fallback date.
C6_ZeroOrEmptyDefaulted ==
    pc = "loaded" =>
        \A i \in 1..Len(file.rows) :
            (/\ file.rows[i].start_time.num
             /\ \/ "start_date" \notin file.cols
                \/ Strip(file.rows[i].start_date) \in {"", "0"}) =>
                \E j \in 1..Len(data) :
                    /\ data[j].line = i
                    /\ data[j].timestamp =
                        FallbackDay * SecondsPerDay
                            + Val(hhmmss_to_timedelta(file.rows[i].start_time))

Ascending(d) ==
    \A i, j \in 1..Len(d) :
        i < j => /\ d[i].timestamp <= d[j].timestamp
                 /\ (d[i].timestamp = d[j].timestamp => d[i].line < d[j].line)

\* C7: for every file, in chronological order or not, the series after
\* loading and cleaning is ascending by timestamp, records of equal
\* timestamp in file order.
C7_SeriesAscending == pc \in {"loaded", "cleaned"} => Ascending(data)

\* C7, the part the code keeps: the series is in file order and no two
\* records of it come from the same line.
C7_FileOrder ==
    pc \in {"loaded", "cleaned"} =>
        \A i, j \in 1..Len(data) : i < j => data[i].line < data[j].line

\* the series the Cleaner hands to the Indicator Engine
Cleaned == CleanData(LoadRows(file))

WarmUpRecords == VolatilityWindow - 1

\* the sum of the w prices up to record i of the series d
WindowSum(d, i, w) == SumSeq([k \in 1..w |-> Val(d[i - w + k].last_price)])

WindowSquares(d, i, w) ==
    SumSeq([k \in 1..w |-> Val(d[i - w + k].last_price) * Val(d[i - w + k].last_price)])

\* C8: the series after the Indicator Engine is the cleaned series without
\* its first 19 records (empty when it has fewer than 20): record j of it is
\* record j + 19 of the cleaned series with every indicator defined, each
\* rolling value computed from that record and the w - 1 records before it.
C8_WarmUpDropped ==
    pc = "enriched" =>
        /\ Len(data) = Max(0, Len(Cleaned) - WarmUpRecords)
        /\ \A j \in 1..Len(data) :
            LET i == j + WarmUpRecords
                r == data[j]
            IN  /\ r.line = Cleaned[i].line
                /\ \A c \in BaseCols : r[c] = Cleaned[i][c]
                /\ \A c \in IndicatorCols : ~IsNull(r[c])
                /\ Val(r.ma_5_period) =
                        [num |-> WindowSum(Cleaned, i, ShortWindow), den |-> ShortWindow]
                /\ Val(r.ma_10_period) =
                        [num |-> WindowSum(Cleaned, i, MidWindow), den |-> MidWindow]
                /\ Val(r.ma_20_period) =
                        [num |-> WindowSum(Cleaned, i, VolatilityWindow),
                         den |-> VolatilityWindow]
                /\ Val(r.volatility_20_period).num =
                        VolatilityWindow * WindowSquares(Cleaned, i, VolatilityWindow)
                        - WindowSum(Cleaned, i, VolatilityWindow)
                            * WindowSum(Cleaned, i, VolatilityWindow)
                /\ Val(r.bid_ask_spread) =
                        Val(Cleaned[i].sell_price) - Val(Cleaned[i].buy_price)

C8_Witness ==
    /\ pc = "enriched"
    /\ Len(data) >= 2
    /\ Len(Cleaned) < Len(file.rows)
    /\ data[1].line > VolatilityWindow

\* the whole number int(float(..)) makes of a numeric start_time cell
Truncated(cell) ==
    IF cell.val >= 0 THEN cell.val \div 10 ELSE 0 - ((0 - cell.val) \div 10)

Recomposed(v) == Hours(v) * HourFactor + Minutes(v) * MinuteFactor + Seconds(v)

C10_CleanerIdempotent == pc = "cleaned" => CleanData(data) = data

\* a cleaned series in which a zero price and a missing price were filled
\* and a leading record was dropped
C10_Witness ==
    /\ pc = "cleaned"
    /\ Len(data) >= 2
    /\ data[1].line > 1
    /\ \E j \in 1..Len(data) :
        /\ ~file.rows[data[j].line].ltp.num
        /\ file.rows[data[j].line].l1_bid_vwap = N(0)

====
